---------------------------- MODULE Spec2Model ----------------------------
(***************************************************************************)
(* Mood Entry Service (backend/server.py): a REST facade over one MongoDB  *)
(* collection, db.mood_entries.  The state is the collection, the id      *)
(* generator, the wall clock and the last HTTP response.  Every handler is *)
(* one action.  Python str values are sequences of character codes, None   *)
(* is a value that is no string, a datetime is a count of microsecond      *)
(* ticks, and the stored timestamp is the text datetime.isoformat() makes. *)
(***************************************************************************)
EXTENDS Integers, Sequences, FiniteSets, TLC

VARIABLES
    store,     \* db.mood_entries: the set of stored documents
    created,   \* how many ids uuid4() has handed out
    now,       \* the wall clock, in ticks
    resp,      \* the last HTTP response, with the request it answers
    assigned,  \* history: the ids of every document ever inserted
    pend       \* the Update that has written and not yet read back, if any

vars == <<store, created, now, resp, assigned, pend>>

(***************************************************************************)
(* Bounds of the model.                                                    *)
(***************************************************************************)
\* Number of entries Create may insert in one behaviour.
MaxIds == 2
\* Last instant the wall clock reaches.
MaxClock == 1
\* Ticks of the clock per second (the fraction isoformat() prints).
TicksPerSec == 2

(***************************************************************************)
(* Python values.                                                          *)
(***************************************************************************)
\* None: a value that is not a str (no character has a negative code).
None == <<-1>>
\* A field missing from the JSON body.
Absent == <<-2>>
\* Character codes.
NEWLINE == 10
QUOTE == 34
PLUS == 43
COMMA == 44
MINUS == 45
DOT == 46
DIGIT0 == 48

IsStr(v) == \A k \in 1..Len(v) : v[k] >= 0

\* Request inputs.  mood: inside and outside the documented 1-5 scale;
\* mood_emoji: an emoji, and a text holding a double quote;
\* notes: absent, null, and a text holding a double quote.
Moods == {3, 6}
Emojis == {<<128578>>, <<QUOTE>>}
NotesInputs == {Absent, None, <<QUOTE>>}
Dates == {<<DIGIT0 + 1>>, <<DIGIT0 + 2>>}
IdArgs == 1..MaxIds
DbOutcomes == BOOLEAN

\* The request bodies: every notes and date with a mood on the scale, and
\* every date with a mood off it (no handler reads mood, so its pairing with
\* notes decides nothing).  The mood_emoji holding a double quote comes with
\* the mood off the scale: the two are not cross-validated.
Payloads ==
    {p \in [mood : Moods, mood_emoji : Emojis, notes : NotesInputs, date : Dates] :
        /\ p.mood \notin 1..5 => p.notes = Absent
        /\ p.mood \notin 1..5 <=> p.mood_emoji = <<QUOTE>>}

(***************************************************************************)
(* Text and time.                                                          *)
(***************************************************************************)
\* Python and MongoDB order strings by code point, left to right; a proper
\* prefix sorts first.
RECURSIVE StrLess(_, _)
StrLess(a, b) ==
    IF b = <<>> THEN FALSE
    ELSE IF a = <<>> THEN TRUE
    ELSE IF a[1] # b[1] THEN a[1] < b[1]
    ELSE StrLess(Tail(a), Tail(b))

\* datetime.isoformat() of an aware UTC datetime: the seconds at fixed width,
\* then ".ffffff" only when the microsecond part is not 0, then "+00:00".
isoformat(t) ==
    <<DIGIT0 + (t \div TicksPerSec)>>
        \o (IF t % TicksPerSec = 0 THEN <<>> ELSE <<DOT, DIGIT0 + (t % TicksPerSec)>>)
        \o <<PLUS>>

\* datetime.fromisoformat(): reads the seconds, and the fraction when there is one.
fromisoformat(s) ==
    (s[1] - DIGIT0) * TicksPerSec + (IF s[2] = DOT THEN s[3] - DIGIT0 ELSE 0)

\* str(n) of an int, as an f-string prints it.
RECURSIVE Decimal(_)
Decimal(n) ==
    IF n < 10 THEN <<DIGIT0 + n>> ELSE Decimal(n \div 10) \o <<DIGIT0 + (n % 10)>>

str_int(n) == IF n < 0 THEN <<MINUS>> \o Decimal(0 - n) ELSE Decimal(n)

\* text.replace('"', '""')
RECURSIVE replace_quotes(_)
replace_quotes(text) ==
    IF text = <<>> THEN <<>>
    ELSE (IF text[1] = QUOTE THEN <<QUOTE, QUOTE>> ELSE <<text[1]>>)
            \o replace_quotes(Tail(text))

(***************************************************************************)
(* Models (pydantic).                                                      *)
(***************************************************************************)
\* A faulty MoodEntryCreate: the notes of the body are dropped.
MoodEntryCreateNoNotes(p) ==
    [mood |-> p.mood, mood_emoji |-> p.mood_emoji, notes |-> <<>>, date |-> p.date]

\* MoodEntryCreate(...).dict(): notes defaults to "" when the body has none;
\* an explicit null is kept (Optional[str]).  mood is any int.
MoodEntryCreate(p) ==
    [mood |-> p.mood, mood_emoji |-> p.mood_emoji,
     notes |-> IF p.notes = Absent THEN <<>> ELSE p.notes, date |-> p.date]

\* A faulty uuid4: the id is derived from the number of stored entries.
uuid4_count == Cardinality(store) + 1

\* uuid.uuid4(): a value no earlier call returned.
uuid4 == created + 1

\* bson ObjectId of an inserted document.
ObjectId == created + 1

\* MoodEntry(**mood_dict).dict(): id and timestamp from the default factories.
MoodEntry(mood_dict) ==
    [id |-> uuid4, mood |-> mood_dict.mood, mood_emoji |-> mood_dict.mood_emoji,
     notes |-> mood_dict.notes, date |-> mood_dict.date, timestamp |-> now]

\* MoodEntryResponse(**fields) validates: notes is declared str, so None raises.
ResponseValid(fields) == IsStr(fields.notes)

\* MoodEntryResponse(**fields): the six declared fields, extra keys (_id) dropped.
MoodEntryResponse(fields) ==
    [id |-> fields.id, mood |-> fields.mood, mood_emoji |-> fields.mood_emoji,
     notes |-> fields.notes, date |-> fields.date, timestamp |-> fields.timestamp]

prepare_for_mongo(data) == [data EXCEPT !.timestamp = isoformat(data.timestamp)]

parse_from_mongo(item) == [item EXCEPT !.timestamp = fromisoformat(item.timestamp)]

(***************************************************************************)
(* The collection db.mood_entries.                                         *)
(***************************************************************************)
\* insert_one: the document gains its _id.
insert_one(coll, doc) ==
    coll \cup {[_id |-> ObjectId, id |-> doc.id, mood |-> doc.mood,
                mood_emoji |-> doc.mood_emoji, notes |-> doc.notes,
                date |-> doc.date, timestamp |-> doc.timestamp]}

\* The documents a filter {"id": mood_id} selects.
MatchId(coll, mood_id) == {d \in coll : d.id = mood_id}

\* The documents a filter {"date": date} selects.
MatchDate(coll, date) == {d \in coll : d.date = date}

\* A faulty SetFields: the update leaves "date" out of the $set document.
SetFieldsNoDate(d, mood_dict) ==
    [d EXCEPT !.mood = mood_dict.mood, !.mood_emoji = mood_dict.mood_emoji,
              !.notes = mood_dict.notes, !.timestamp = mood_dict.timestamp]

\* {"$set": mood_dict} applied to one document: the five keys of mood_dict.
SetFields(d, mood_dict) ==
    [d EXCEPT !.mood = mood_dict.mood, !.mood_emoji = mood_dict.mood_emoji,
              !.notes = mood_dict.notes, !.date = mood_dict.date,
              !.timestamp = mood_dict.timestamp]

\* update_one(filter, update) on the matched document d (no upsert).
update_one(coll, d, mood_dict) == (coll \ {d}) \cup {SetFields(d, mood_dict)}

\* A faulty update_none: update_one called with upsert=True.
update_none_upsert(coll, mood_id, mood_dict) ==
    coll \cup {[_id |-> 0, id |-> mood_id, mood |-> mood_dict.mood,
                mood_emoji |-> mood_dict.mood_emoji, notes |-> mood_dict.notes,
                date |-> mood_dict.date, timestamp |-> mood_dict.timestamp]}

\* update_one when the filter matches nothing.
update_none(coll, mood_id, mood_dict) == coll

\* A faulty delete_one: delete_many on the date of the matched document.
delete_by_date(coll, d) == coll \ MatchDate(coll, d.date)

\* delete_one(filter) on the matched document d.
delete_one(coll, d) == coll \ {d}

\* find().sort(key, -1).to_list(): every document once, the key non-increasing
\* as MongoDB compares strings; the order among equal keys is not fixed.
SortedDesc(coll, seq) ==
    /\ Len(seq) = Cardinality(coll)
    /\ {seq[k] : k \in 1..Len(seq)} = coll
    /\ \A k \in 1..(Len(seq) - 1) : ~StrLess(seq[k].timestamp, seq[k + 1].timestamp)

\* find().sort("date", 1).to_list(): every document once, the date
\* non-decreasing as MongoDB compares strings.
SortedByDate(coll, seq) ==
    /\ Len(seq) = Cardinality(coll)
    /\ {seq[k] : k \in 1..Len(seq)} = coll
    /\ \A k \in 1..(Len(seq) - 1) : ~StrLess(seq[k + 1].date, seq[k].date)

(***************************************************************************)
(* CSV export.                                                             *)
(***************************************************************************)
\* "Date,Mood,Emoji,Notes,Timestamp\n"
CsvHeader ==
    <<68, 97, 116, 101, COMMA, 77, 111, 111, 100, COMMA, 69, 109, 111, 106, 105, COMMA,
      78, 111, 116, 101, 115, COMMA, 84, 105, 109, 101, 115, 116, 97, 109, 112, NEWLINE>>

\* The f-string of one data row: date, emoji, notes and timestamp between
\* double quotes, mood bare; only notes has its double quotes doubled.
CsvRow(mood) ==
    <<QUOTE>> \o mood.date \o <<QUOTE, COMMA>>
        \o str_int(mood.mood) \o <<COMMA>>
        \o <<QUOTE>> \o mood.mood_emoji \o <<QUOTE, COMMA>>
        \o <<QUOTE>> \o replace_quotes(mood.notes) \o <<QUOTE, COMMA>>
        \o <<QUOTE>> \o mood.timestamp \o <<QUOTE, NEWLINE>>

\* csv_content after the loop has appended the rows of moods[1..k].
RECURSIVE CsvContent(_, _)
CsvContent(moods, k) ==
    IF k = 0 THEN CsvHeader ELSE CsvContent(moods, k - 1) \o CsvRow(moods[k])

(***************************************************************************)
(* Responses.                                                              *)
(***************************************************************************)
\* What a handler's try block ends with: a returned body or a raised exception.
Return(body) == [raised |-> FALSE, status |-> 200, body |-> body]

\* raise HTTPException(status_code, detail)
HTTPException(status_code, detail) ==
    [raised |-> TRUE, status |-> status_code, body |-> [kind |-> "error", detail |-> detail]]

\* An exception raised by the storage driver or by pydantic validation.
Raise(detail) == [raised |-> TRUE, status |-> 0, body |-> [kind |-> "error", detail |-> detail]]

\* "except Exception as e: raise HTTPException(status_code=500, detail=str(e))"
\* around every handler body.  HTTPException is an Exception, so the clause
\* also catches the handler's own HTTPException and answers 500 in its place
\* (the detail text keeps the message and leaves out the "404: " str(e) adds).
except_Exception(out) ==
    IF out.raised THEN HTTPException(500, out.body.detail) ELSE out

\* The HTTP response the client receives; req and dbok record the request and
\* whether every storage call of the handler succeeded.
Response(req, dbok, out) ==
    [req |-> req, dbok |-> dbok, status |-> out.status, body |-> out.body]

EntryBody(e) == [kind |-> "entry", entry |-> e]
NullBody == [kind |-> "null"]
ListBody(items) == [kind |-> "list", items |-> items]
MessageBody(m) == [kind |-> "message", message |-> m]
\* {"content": csv_content, "filename": "mood_data_<day>.csv"}
CsvBody(content, day) == [kind |-> "csv", content |-> content, filename |-> day]

\* No response is in flight: the server waits for the next request.
Idle == [req |-> [op |-> "none"], dbok |-> TRUE, status |-> 0, body |-> NullBody]

\* No Update is between its two storage calls.
NoUpdate == [active |-> FALSE]

Init ==
    /\ store = {}
    /\ created = 0
    /\ now = 0
    /\ resp = Idle
    /\ assigned = {}
    /\ pend = NoUpdate

(***************************************************************************)
(* Handlers.  A handler runs from the request to the response as one step;  *)
(* the client takes the response before it sends the next request.         *)
(***************************************************************************)
\* GET /api/
root ==
    /\ resp = Idle
    /\ resp' = Response([op |-> "root"], TRUE, Return(MessageBody("Mood Tracker API")))
    /\ UNCHANGED <<store, created, now, assigned, pend>>

\* POST /api/moods
create_mood_entry(mood_data, dbok) ==
    /\ resp = Idle
    /\ created < MaxIds
    /\ LET mood_dict == MoodEntryCreate(mood_data)
           mood_obj == MoodEntry(mood_dict)
           doc == prepare_for_mongo(mood_obj)
           out == IF ~dbok THEN Raise("insert_one failed")
                  ELSE IF ResponseValid(mood_obj)
                       THEN Return(EntryBody(MoodEntryResponse(mood_obj)))
                       ELSE Raise("notes: none is not an allowed value")
       IN /\ store' = IF dbok THEN insert_one(store, doc) ELSE store
          /\ created' = created + 1
          /\ assigned' = IF dbok THEN assigned \cup {doc.id} ELSE assigned
          /\ resp' = Response([op |-> "create", payload |-> mood_data], dbok,
                              except_Exception(out))
    /\ UNCHANGED <<now, pend>>

\* GET /api/moods
get_mood_entries(dbok) ==
    /\ resp = Idle
    /\ \E moods \in [1..Cardinality(store) -> store] :
          /\ SortedDesc(store, moods)
          /\ LET out == IF ~dbok THEN Raise("find failed")
                        ELSE IF \A k \in DOMAIN moods : ResponseValid(moods[k])
                             THEN Return(ListBody(
                                    [k \in DOMAIN moods |->
                                        MoodEntryResponse(parse_from_mongo(moods[k]))]))
                             ELSE Raise("notes: none is not an allowed value")
             IN resp' = Response([op |-> "list"], dbok, except_Exception(out))
    /\ UNCHANGED <<store, created, now, assigned, pend>>

\* GET /api/moods/{date}
get_mood_by_date(date, dbok) ==
    /\ resp = Idle
    /\ LET req == [op |-> "get_by_date", date |-> date]
       IN IF ~dbok
          THEN resp' = Response(req, dbok, except_Exception(Raise("find_one failed")))
          ELSE IF MatchDate(store, date) = {}
          THEN resp' = Response(req, dbok, except_Exception(Return(NullBody)))
          ELSE \E mood \in MatchDate(store, date) :
                 LET out == IF ResponseValid(mood)
                            THEN Return(EntryBody(MoodEntryResponse(parse_from_mongo(mood))))
                            ELSE Raise("notes: none is not an allowed value")
                 IN resp' = Response(req, dbok, except_Exception(out))
    /\ UNCHANGED <<store, created, now, assigned, pend>>

\* PUT /api/moods/{mood_id}
update_mood_entry(mood_id, mood_data, dbok, dbok2) ==
    /\ resp = Idle
    /\ LET req == [op |-> "update", id |-> mood_id, payload |-> mood_data]
           mood_dict == [timestamp |-> isoformat(now)] @@ MoodEntryCreate(mood_data)
           notFound == HTTPException(404, "Mood entry not found")
       IN IF ~dbok
          THEN /\ store' = store
               /\ resp' = Response(req, FALSE, except_Exception(Raise("update_one failed")))
          ELSE IF MatchId(store, mood_id) = {}
          THEN /\ store' = update_none(store, mood_id, mood_dict)
               /\ resp' = Response(req, TRUE, except_Exception(notFound))
          ELSE \E d \in MatchId(store, mood_id) :
                 /\ store' = update_one(store, d, mood_dict)
                 /\ IF SetFields(d, mood_dict) = d
                    THEN \* modified_count = 0
                         resp' = Response(req, TRUE, except_Exception(notFound))
                    ELSE IF ~dbok2
                    THEN resp' = Response(req, FALSE, except_Exception(Raise("find_one failed")))
                    ELSE IF MatchId(store', mood_id) = {}
                    THEN resp' = Response(req, TRUE, except_Exception(notFound))
                    ELSE \E updated_mood \in MatchId(store', mood_id) :
                           LET out == IF ResponseValid(updated_mood)
                                      THEN Return(EntryBody(MoodEntryResponse(
                                                    parse_from_mongo(updated_mood))))
                                      ELSE Raise("notes: none is not an allowed value")
                           IN resp' = Response(req, TRUE, except_Exception(out))
    /\ UNCHANGED <<created, now, assigned, pend>>

\* DELETE /api/moods/{mood_id}
delete_mood_entry(mood_id, dbok) ==
    /\ resp = Idle
    /\ LET req == [op |-> "delete", id |-> mood_id]
       IN IF ~dbok
          THEN /\ store' = store
               /\ resp' = Response(req, dbok, except_Exception(Raise("delete_one failed")))
          ELSE IF MatchId(store, mood_id) = {}
          THEN /\ store' = store
               /\ resp' = Response(req, dbok,
                                   except_Exception(HTTPException(404, "Mood entry not found")))
          ELSE \E d \in MatchId(store, mood_id) :
                 /\ store' = delete_one(store, d)
                 /\ resp' = Response(req, dbok, except_Exception(
                                Return(MessageBody("Mood entry deleted successfully"))))
    /\ UNCHANGED <<created, now, assigned, pend>>

\* GET /api/moods/export/csv
export_moods_csv(dbok) ==
    /\ resp = Idle
    /\ \E moods \in [1..Cardinality(store) -> store] :
          /\ SortedByDate(store, moods)
          /\ LET out == IF ~dbok THEN Raise("find failed")
                        ELSE IF \A k \in DOMAIN moods : IsStr(moods[k].notes)
                             THEN Return(CsvBody(CsvContent(moods, Len(moods)),
                                                 now \div TicksPerSec))
                             ELSE \* None has no replace()
                                  Raise("'NoneType' object has no attribute 'replace'")
             IN resp' = Response([op |-> "export"], dbok, except_Exception(out))
    /\ UNCHANGED <<store, created, now, assigned, pend>>

\* The wall clock advances between requests (datetime.now(timezone.utc)).
Tick ==
    /\ now < MaxClock
    /\ now' = now + 1
    /\ UNCHANGED <<store, created, resp, assigned, pend>>

\* The client receives the response.
Receive ==
    /\ resp # Idle
    /\ resp' = Idle
    /\ UNCHANGED <<store, created, now, assigned, pend>>

Create == \E mood_data \in Payloads, dbok \in DbOutcomes : create_mood_entry(mood_data, dbok)
ListAll == \E dbok \in DbOutcomes : get_mood_entries(dbok)
GetByDate == \E date \in Dates, dbok \in DbOutcomes : get_mood_by_date(date, dbok)
Update ==
    \E mood_id \in IdArgs, mood_data \in Payloads, dbok \in DbOutcomes, dbok2 \in DbOutcomes :
        /\ dbok2 => dbok
        /\ update_mood_entry(mood_id, mood_data, dbok, dbok2)
Delete == \E mood_id \in IdArgs, dbok \in DbOutcomes : delete_mood_entry(mood_id, dbok)
ExportCsv == \E dbok \in DbOutcomes : export_moods_csv(dbok)

Next ==
    root \/ Create \/ ListAll \/ GetByDate \/ Update \/ Delete \/ ExportCsv \/ Receive \/ Tick

Spec == Init /\ [][Next]_vars

(***************************************************************************)
(* The Update handler at the grain of its awaits.  update_mood_entry awaits *)
(* update_one, then find_one; the event loop runs other handlers between    *)
(* the two.  One Update at a time is taken through the two steps, and every *)
(* other handler, a second Update included, may run in between.            *)
(***************************************************************************)
\* PUT /api/moods/{mood_id}, up to the return of update_one (storage healthy).
update_begin(mood_id, mood_data) ==
    /\ pend = NoUpdate
    /\ LET mood_dict == [timestamp |-> isoformat(now)] @@ MoodEntryCreate(mood_data)
       IN IF MatchId(store, mood_id) = {}
          THEN /\ store' = update_none(store, mood_id, mood_dict)
               /\ pend' = [active |-> TRUE, id |-> mood_id, payload |-> mood_data,
                           modified |-> FALSE]
          ELSE \E d \in MatchId(store, mood_id) :
                 /\ store' = update_one(store, d, mood_dict)
                 /\ pend' = [active |-> TRUE, id |-> mood_id, payload |-> mood_data,
                             modified |-> SetFields(d, mood_dict) # d]
    /\ UNCHANGED <<created, now, resp, assigned>>

\* PUT /api/moods/{mood_id}, from the return of update_one to the response.
update_finish(dbok2) ==
    /\ pend # NoUpdate
    /\ resp = Idle
    /\ LET req == [op |-> "update", id |-> pend.id, payload |-> pend.payload]
           notFound == HTTPException(404, "Mood entry not found")
       IN IF ~pend.modified
          THEN resp' = Response(req, TRUE, except_Exception(notFound))
          ELSE IF ~dbok2
          THEN resp' = Response(req, FALSE, except_Exception(Raise("find_one failed")))
          ELSE IF MatchId(store, pend.id) = {}
          THEN resp' = Response(req, TRUE, except_Exception(notFound))
          ELSE \E updated_mood \in MatchId(store, pend.id) :
                 LET out == IF ResponseValid(updated_mood)
                            THEN Return(EntryBody(MoodEntryResponse(
                                          parse_from_mongo(updated_mood))))
                            ELSE Raise("notes: none is not an allowed value")
                 IN resp' = Response(req, TRUE, except_Exception(out))
    /\ pend' = NoUpdate
    /\ UNCHANGED <<store, created, now, assigned>>

UpdateBegin == \E mood_id \in IdArgs, mood_data \in Payloads : update_begin(mood_id, mood_data)
UpdateFinish == \E dbok2 \in DbOutcomes : update_finish(dbok2)

NextConc == Next \/ UpdateBegin \/ UpdateFinish

SpecConc == Init /\ [][NextConc]_vars

(***************************************************************************)
(* Properties.                                                             *)
(***************************************************************************)
\* The notes a payload asks for: "" when the body has none.
NotesOf(mood_data) == IF mood_data.notes = Absent THEN <<>> ELSE mood_data.notes

\* A step of the Update handler, its arguments read off the response.
UpdateStep(dbok, dbok2) ==
    /\ resp'.req.op = "update"
    /\ update_mood_entry(resp'.req.id, resp'.req.payload, dbok, dbok2)

\* A step of the Delete handler, its argument read off the response.
DeleteStep(dbok) ==
    /\ resp'.req.op = "delete"
    /\ delete_mood_entry(resp'.req.id, dbok)

\* C1: Update and Delete on an id that matches no stored entry answer 404,
\* not 500 (storage healthy).
C1_MissingIdAnswers404 ==
    [][/\ (UpdateStep(TRUE, TRUE) /\ MatchId(store, resp'.req.id) = {})
            => resp'.status = 404
       /\ (DeleteStep(TRUE) /\ MatchId(store, resp'.req.id) = {})
            => resp'.status = 404]_vars

\* C2: Create answers 200 with the created entry whenever the insert
\* succeeds, for every structurally valid payload; it fails only when the
\* storage write fails.
C2_CreateFailsOnlyOnStorageFailure ==
    resp.req.op = "create" =>
        /\ resp.status = 200 <=> resp.dbok
        /\ resp.dbok =>
              /\ resp.body.kind = "entry"
              /\ resp.body.entry.mood = resp.req.payload.mood
              /\ resp.body.entry.notes = NotesOf(resp.req.payload)

\* C3: Update on an id that matches no stored entry leaves the collection
\* unchanged, whatever the payload and the storage outcome.
C3_UpdateMissingLeavesStore ==
    [][\A dbok \in DbOutcomes, dbok2 \in DbOutcomes :
         (UpdateStep(dbok, dbok2) /\ MatchId(store, resp'.req.id) = {})
            => store' = store]_vars

\* C3 witness: an Update reached storage, matched nothing, and other entries
\* are stored.
C3_Witness ==
    /\ resp.req.op = "update"
    /\ resp.dbok
    /\ store # {}
    /\ MatchId(store, resp.req.id) = {}

\* C4: Delete on an id that matches a stored entry answers 200 with the
\* acknowledgment and removes exactly that entry: no stored entry has the id
\* afterwards, every other entry is stored unchanged, nothing is added.
C4_DeleteRemovesExactlyOne ==
    [][(DeleteStep(TRUE) /\ MatchId(store, resp'.req.id) # {}) =>
            /\ resp'.status = 200
            /\ resp'.body.kind = "message"
            /\ MatchId(store', resp'.req.id) = {}
            /\ \A d \in store : d.id # resp'.req.id => d \in store'
            /\ store' \subseteq store
            /\ Cardinality(store') = Cardinality(store) - 1]_vars

\* C4 witness: a Delete succeeded and the entry that shared the collection
\* with the deleted one is still stored.
C4_Witness ==
    /\ resp.req.op = "delete"
    /\ resp.status = 200
    /\ store # {}
    /\ MatchId(store, resp.req.id) = {}
    /\ resp.req.id \in assigned

\* C5: after a successful Update(id, payload) the entry with that id holds the
\* payload's mood, mood_emoji, notes and date, keeps its id, has a timestamp
\* not earlier than before; the number of entries is unchanged and no other
\* entry is modified.
C5_UpdateReplacesFields ==
    [][(UpdateStep(TRUE, TRUE) /\ resp'.status = 200) =>
            \E d \in store, e \in store' :
               /\ d.id = resp'.req.id
               /\ e.id = resp'.req.id
               /\ e._id = d._id
               /\ e.mood = resp'.req.payload.mood
               /\ e.mood_emoji = resp'.req.payload.mood_emoji
               /\ e.notes = NotesOf(resp'.req.payload)
               /\ e.date = resp'.req.payload.date
               /\ fromisoformat(e.timestamp) >= fromisoformat(d.timestamp)
               /\ store' \ {e} = store \ {d}
               /\ Cardinality(store') = Cardinality(store)]_vars

\* C5 witness: an Update succeeded later than the creation of the entries,
\* with another entry stored beside the updated one.
C5_Witness ==
    /\ resp.req.op = "update"
    /\ resp.status = 200
    /\ Cardinality(store) = 2
    /\ \E d \in store : d.id = resp.req.id /\ fromisoformat(d.timestamp) > 0
    /\ \E d \in store : d.id # resp.req.id /\ fromisoformat(d.timestamp) = 0

\* C6: no two stored entries share an id; no step, Update included, changes
\* the id of a stored document; the id Create gives a new entry was never
\* given to an earlier entry, deleted or not.
C6_IdsUniqueImmutableFresh ==
    [][/\ \A d1 \in store', d2 \in store' : d1.id = d2.id => d1 = d2
       /\ \A d \in store, e \in store' : d._id = e._id => d.id = e.id
       /\ \A e \in store' :
             (\A d \in store : d._id # e._id) => e.id \notin assigned]_vars

\* C6 witness: two entries were created, the second after the first was
\* deleted.
C6_Witness ==
    /\ resp.req.op = "create"
    /\ resp.status = 200
    /\ Cardinality(assigned) = 2
    /\ Cardinality(store) = 1

\* C7: ListAll answers 200 with every stored entry exactly once, timestamps
\* non-increasing; an empty collection gives an empty list (storage healthy).
C7_ListAllReturnsAllSorted ==
    (resp.req.op = "list" /\ resp.dbok) =>
        /\ resp.status = 200
        /\ resp.body.kind = "list"
        /\ Len(resp.body.items) = Cardinality(store)
        /\ \A d \in store :
              \E k \in 1..Len(resp.body.items) : resp.body.items[k].id = d.id
        /\ \A k \in 1..(Len(resp.body.items) - 1) :
              resp.body.items[k].timestamp >= resp.body.items[k + 1].timestamp

\* C8: GetByDate(d) answers 200 with a stored entry whose date is d when one
\* exists, and 200 with null when none does (storage healthy).
C8_GetByDateFindsOrNull ==
    (resp.req.op = "get_by_date" /\ resp.dbok) =>
        /\ resp.status = 200
        /\ IF \E d \in store : d.date = resp.req.date
           THEN /\ resp.body.kind = "entry"
                /\ resp.body.entry.date = resp.req.date
                /\ \E d \in store : d.id = resp.body.entry.id /\ d.date = resp.req.date
           ELSE resp.body = NullBody

\* A step of the GetByDate handler, its argument read off the response.
GetByDateStep(dbok) ==
    /\ resp'.req.op = "get_by_date"
    /\ get_mood_by_date(resp'.req.date, dbok)

\* A step of the Create handler, its argument read off the response.
CreateStep(dbok) ==
    /\ resp'.req.op = "create"
    /\ create_mood_entry(resp'.req.payload, dbok)

\* C9: when no other stored entry shares the date, GetByDate(payload.date)
\* after a successful Create(payload) answers an entry with the payload's
\* mood, mood_emoji and notes, and after a successful Delete of the created id
\* it answers null.  Step by step: a successful Create stores one new entry
\* holding the payload; GetByDate of a date only such an entry has answers
\* that entry; a successful Delete of an entry that alone has its date leaves
\* no entry of that date; GetByDate of a date no entry has answers null.
C9_CreateGetDeleteGet ==
    [][/\ (CreateStep(TRUE) /\ resp'.status = 200)
          => \E e \in store' :
                /\ store' = store \cup {e}
                /\ e \notin store
                /\ e.id = resp'.body.entry.id
                /\ e.date = resp'.req.payload.date
                /\ e.mood = resp'.req.payload.mood
                /\ e.mood_emoji = resp'.req.payload.mood_emoji
                /\ e.notes = NotesOf(resp'.req.payload)
                /\ IsStr(e.notes)
       /\ GetByDateStep(TRUE)
          => \A e \in store :
                ( /\ {x \in store : x.date = resp'.req.date} = {e}
                  /\ IsStr(e.notes) )
                => /\ resp'.status = 200
                   /\ resp'.body.kind = "entry"
                   /\ resp'.body.entry.id = e.id
                   /\ resp'.body.entry.mood = e.mood
                   /\ resp'.body.entry.mood_emoji = e.mood_emoji
                   /\ resp'.body.entry.notes = e.notes
       /\ (DeleteStep(TRUE) /\ resp'.status = 200)
          => \A d \in store :
                ( /\ d.id = resp'.req.id
                  /\ {x \in store : x.date = d.date} = {d} )
                => ~ \E x \in store' : x.date = d.date
       /\ ( /\ GetByDateStep(TRUE)
            /\ ~ \E x \in store : x.date = resp'.req.date )
          => /\ resp'.status = 200
             /\ resp'.body = NullBody]_vars

\* C9 witness: every entry ever created has been deleted again and GetByDate
\* answered null.
C9_Witness ==
    /\ resp.req.op = "get_by_date"
    /\ resp.status = 200
    /\ resp.body = NullBody
    /\ assigned # {}
    /\ store = {}

\* C10: Create rejects a mood outside 1..5 with a status other than 200 and
\* stores nothing; it accepts a mood in 1..5 (storage healthy, notes a string
\* or absent).
C10_CreateChecksMoodRange ==
    [][\A dbok \in DbOutcomes :
         CreateStep(dbok) =>
            IF resp'.req.payload.mood \in 1..5
            THEN (dbok /\ IsStr(NotesOf(resp'.req.payload))) => resp'.status = 200
            ELSE resp'.status # 200 /\ store' = store]_vars

(***************************************************************************)
(* Reading a CSV document back.                                            *)
(***************************************************************************)
\* The lines of a text, without their line ends.
RECURSIVE SplitLines(_, _, _)
SplitLines(text, line, lines) ==
    IF text = <<>> THEN (IF line = <<>> THEN lines ELSE Append(lines, line))
    ELSE IF text[1] = NEWLINE THEN SplitLines(Tail(text), <<>>, Append(lines, line))
    ELSE SplitLines(Tail(text), Append(line, text[1]), lines)

\* The data rows of a CSV document: its lines after the header.
DataRows(content) == Tail(SplitLines(content, <<>>, <<>>))

\* Reads a quoted field of row from position i, the opening quote passed: a
\* doubled quote stands for one quote, a single quote closes the field.
RECURSIVE ScanQuoted(_, _, _)
ScanQuoted(row, i, value) ==
    IF i > Len(row) THEN [ok |-> FALSE, value |-> value, next |-> i]
    ELSE IF row[i] # QUOTE THEN ScanQuoted(row, i + 1, Append(value, row[i]))
    ELSE IF i + 1 <= Len(row) /\ row[i + 1] = QUOTE
         THEN ScanQuoted(row, i + 2, Append(value, QUOTE))
    ELSE [ok |-> TRUE, value |-> value, next |-> i + 1]

\* Reads a field written without quotes: it runs to the next comma.
RECURSIVE ScanBare(_, _, _)
ScanBare(row, i, value) ==
    IF i > Len(row) \/ row[i] = COMMA THEN [ok |-> TRUE, value |-> value, next |-> i]
    ELSE ScanBare(row, i + 1, Append(value, row[i]))

\* What a row that cannot be read back parses to.
Malformed == <<None>>

\* The field values of a row, un-quoted and un-escaped; a field written
\* without quotes is taken as it stands.
RECURSIVE ParseRow(_, _, _)
ParseRow(row, i, fields) ==
    LET f == IF i <= Len(row) /\ row[i] = QUOTE
             THEN ScanQuoted(row, i + 1, <<>>)
             ELSE ScanBare(row, i, <<>>)
    IN IF ~f.ok THEN Malformed
       ELSE IF f.next > Len(row) THEN Append(fields, f.value)
       ELSE IF row[f.next] = COMMA THEN ParseRow(row, f.next + 1, Append(fields, f.value))
       ELSE Malformed

\* The five values a stored entry shows in its row.
RowValues(d) == <<d.date, str_int(d.mood), d.mood_emoji, d.notes, d.timestamp>>

\* C11: in the CSV text ExportCsv returns, un-quoting and un-escaping the
\* fields of every data row yields the stored date, mood, emoji, notes and
\* timestamp of an entry, and every entry has such a row.
C11_CsvFieldsRoundTrip ==
    (resp.req.op = "export" /\ resp.status = 200) =>
        LET rows == DataRows(resp.body.content)
        IN /\ \A k \in 1..Len(rows) :
                 \E d \in store : ParseRow(rows[k], 1, <<>>) = RowValues(d)
           /\ \A d \in store :
                 \E k \in 1..Len(rows) : ParseRow(rows[k], 1, <<>>) = RowValues(d)

\* The date a data row starts with.
RowDate(row) == ScanQuoted(row, 2, <<>>).value

\* C12: ExportCsv answers 200 with a document whose first line is the header
\* Date,Mood,Emoji,Notes,Timestamp, followed by one data row per stored entry,
\* the dates ascending; an empty collection gives the header alone (storage
\* healthy).
C12_CsvHeaderAndRowsByDate ==
    (resp.req.op = "export" /\ resp.dbok) =>
        /\ resp.status = 200
        /\ LET lines == SplitLines(resp.body.content, <<>>, <<>>)
               rows == Tail(lines)
           IN /\ lines[1] = SubSeq(CsvHeader, 1, Len(CsvHeader) - 1)
              /\ Len(rows) = Cardinality(store)
              /\ \A date \in Dates :
                    Cardinality({k \in 1..Len(rows) : RowDate(rows[k]) = date})
                        = Cardinality({d \in store : d.date = date})
              /\ \A k \in 1..(Len(rows) - 1) :
                    ~StrLess(RowDate(rows[k + 1]), RowDate(rows[k]))

\* C14: with structurally valid payloads only, ListAll and ExportCsv answer
\* 200 in every reachable state while storage is healthy.
C14_ListAndExportNeverFail ==
    (resp.req.op \in {"list", "export"} /\ resp.dbok) => resp.status = 200

\* C13: under any interleaving of Update and Delete calls on one id, an
\* Update answers 200 with its own payload's mood, mood_emoji, notes and date
\* exactly when its write modified a stored entry, and reports not-found only
\* when its write modified none (storage healthy, notes a string or absent).
C13_UpdateAnswersItsOwnWrite ==
    [][(update_finish(TRUE) /\ IsStr(NotesOf(pend.payload))) =>
          /\ pend.modified <=>
                /\ resp'.status = 200
                /\ resp'.body.kind = "entry"
                /\ resp'.body.entry.mood = pend.payload.mood
                /\ resp'.body.entry.mood_emoji = pend.payload.mood_emoji
                /\ resp'.body.entry.notes = NotesOf(pend.payload)
                /\ resp'.body.entry.date = pend.payload.date
          /\ (resp'.body.kind = "error" /\ resp'.body.detail = "Mood entry not found")
                => ~pend.modified]_vars

====
